---------------------------- MODULE Spec2Model ----------------------------
(***************************************************************************)
(* kubectl-watch-rollout: the poll loop of monitor.Controller, the         *)
(* snapshot builder, the rollout status classifier, the progress           *)
(* estimator, the event summarizer and the views, as state machines over   *)
(* the values the Go code computes.                                        *)
(*                                                                         *)
(* The source tree holds two revisions of Controller.buildSnapshot: the    *)
(* one of internal/monitor/snapshot.go (pod warnings, GetPodWarnings) and  *)
(* the later one (pod events, GetPodEvents, SummarizeEvents).  The model   *)
(* carries both; the variable rev says which one the running binary has.   *)
(***************************************************************************)
EXTENDS Integers, Sequences, FiniteSets, TLC

VARIABLES
    pc,            \* position of Controller.Run / main
    cycle,         \* number of the poll cycle in progress (1-based)
    cancelled,     \* ctx.Done() is closed
    tickReady,     \* ticker.C holds a tick (channel of capacity 1)
    config,        \* Controller.config: UntilComplete, IgnoreEvents, SimilarityThreshold
    rev,           \* revision of buildSnapshot the binary was built from
    deployment,    \* buildSnapshot's local: the fetched deployment (option)
    replicaSets,   \* buildSnapshot's locals oldRSs, newRS (option)
    rawEvents,     \* buildSnapshot's local: the fetched events/warnings (option)
    warnErr,       \* buildSnapshot's local err after GetPodWarnings (snapshot.go:92)
    snapshot,      \* processDeployment's local: the snapshot built (option)
    rendered,      \* what the view last displayed (option)
    renders,       \* number of RenderSnapshot calls that have returned
    ret,           \* the value Run returned
    shutdowns,     \* number of view.Shutdown() calls
    exitCode,      \* the process's exit code (option)
    memo,          \* history: the raw data and snapshot of one earlier cycle
    arg,           \* input of the pure function applied on its own
    res,           \* its result (option)
    heap,          \* the RolloutSnapshot objects allocated, by address
    tui            \* tui.View: the bubbletea program, its Model and its commands

vars == <<pc, cycle, cancelled, tickReady, config, rev, deployment,
          replicaSets, rawEvents, warnErr, snapshot, rendered, renders, ret, shutdowns,
          exitCode, memo, arg, res, heap, tui>>

runVars == <<pc, cycle, cancelled, tickReady, config, rev, deployment,
             replicaSets, rawEvents, warnErr, snapshot, rendered, renders, ret,
             shutdowns, exitCode, memo, heap, tui>>

---------------------------------------------------------------------------
(* Bounds of the model *)

MaxCycles == 2
MaxConds == 3
MaxReplicas == 3
MaxAvailable == 4
MaxOldRS == 2
MaxTime == 6
MaxEvents == 3
MaxItems == 2

---------------------------------------------------------------------------
(* Option values: a Go nil pointer / absent local is None, else Some(x) *)

None == <<>>
Some(x) == <<x>>
IsSome(o) == o # <<>>
Val(o) == o[1]

---------------------------------------------------------------------------
(* constants.go, types.go *)

NewReplicaSetAvailable == "NewReplicaSetAvailable"
ProgressDeadlineExceeded == "ProgressDeadlineExceeded"
defaultReplicaCount == 1

StatusProgressing == "Progressing"
StatusDeadlineExceeded == "DeadlineExceeded"
StatusComplete == "Complete"

DeploymentAvailable == "Available"
DeploymentProgressing == "Progressing"
ConditionTrue == "True"
ConditionFalse == "False"

CondTypes == {DeploymentAvailable, DeploymentProgressing, "ReplicaFailure"}
CondStatuses == {ConditionTrue, ConditionFalse, "Unknown"}
CondReasons == {NewReplicaSetAvailable, ProgressDeadlineExceeded, "ReplicaSetUpdated"}

\* appsv1.DeploymentCondition, the fields the code reads
Conditions == [Type : CondTypes, Status : CondStatuses, Reason : CondReasons]

Cond(t, s, r) == [Type |-> t, Status |-> s, Reason |-> r]

SeqsUpTo(S, n) == UNION {[1..k -> S] : k \in 0..n}

\* IsDone that forgets the failed rollout
IsDone_OnlyComplete(s) == s = StatusComplete
IsDone(s) == s = StatusComplete \/ s = StatusDeadlineExceeded

IsFailed(s) == s = StatusDeadlineExceeded

\* hasCondition comparing the type alone
hasCondition_TypeOnly(conditions, condType, condStatus, reason) ==
    \E i \in 1..Len(conditions) : conditions[i].Type = condType
\* hasCondition: the reason "" matches every reason
hasCondition(conditions, condType, condStatus, reason) ==
    \E i \in 1..Len(conditions) :
        /\ conditions[i].Type = condType
        /\ conditions[i].Status = condStatus
        /\ (reason = "" \/ conditions[i].Reason = reason)

\* isDeploymentComplete without the check of the Available condition
isDeploymentComplete_NoAvailable(conditions) ==
    hasCondition(conditions, DeploymentProgressing, ConditionTrue, NewReplicaSetAvailable)
isDeploymentComplete(conditions) ==
    /\ hasCondition(conditions, DeploymentAvailable, ConditionTrue, "")
    /\ hasCondition(conditions, DeploymentProgressing, ConditionTrue,
                    NewReplicaSetAvailable)

isDeploymentFailed(conditions) ==
    hasCondition(conditions, DeploymentProgressing, ConditionFalse,
                 ProgressDeadlineExceeded)

CalculateRolloutStatus(conditions) ==
    IF isDeploymentComplete(conditions) THEN StatusComplete
    ELSE IF isDeploymentFailed(conditions) THEN StatusDeadlineExceeded
    ELSE StatusProgressing

getInt32OrDefault(val, defaultVal) == IF val = None THEN defaultVal ELSE Val(val)

---------------------------------------------------------------------------
(* Progress ratios.  float64(a) / float64(b) of two int32 is modelled as    *)
(* the exact fraction in lowest terms, so that equal quotients are equal    *)
(* values and comparisons with 0 and 1 are those of the float64 quotient.   *)

RECURSIVE GCD(_, _)
GCD(a, b) == IF b = 0 THEN a ELSE GCD(b, a % b)

Div(a, b) ==
    IF a = 0 THEN [num |-> 0, den |-> 1]
    ELSE [num |-> a \div GCD(a, b), den |-> b \div GCD(a, b)]

Zero == [num |-> 0, den |-> 1]

\* calculateProgress without the guard of desired = 0
calculateProgress_NoGuard(available, desired) == Div(available, desired)
calculateProgress(available, desired) ==
    IF desired = 0 THEN Zero ELSE Div(available, desired)

\* types.ReplicaSetState / the Status counts of an appsv1.ReplicaSet
RSState(c, r, a) == [Current |-> c, Ready |-> r, Available |-> a]

RECURSIVE aggregateOldRSState(_)
aggregateOldRSState(oldRSs) ==
    IF oldRSs = <<>> THEN RSState(0, 0, 0)
    ELSE LET rest == aggregateOldRSState(Tail(oldRSs))
         IN  RSState(oldRSs[1].Current + rest.Current,
                     oldRSs[1].Ready + rest.Ready,
                     oldRSs[1].Available + rest.Available)

\* a lookup that takes the time of a Progressing condition that is True only
getProgressUpdateTime_TrueOnly(conditions) ==
    IF \E i \in 1..Len(conditions) : /\ conditions[i].Type = DeploymentProgressing
                                     /\ conditions[i].Status = ConditionTrue
    THEN Some("LastUpdateTime") ELSE None
\* getProgressUpdateTime: non-nil iff a Progressing condition exists
getProgressUpdateTime(conditions) ==
    IF \E i \in 1..Len(conditions) : conditions[i].Type = DeploymentProgressing
    THEN Some("LastUpdateTime") ELSE None

---------------------------------------------------------------------------
(* repository.go: the choice of the new and the old ReplicaSets.  A string  *)
(* is the sequence of its characters.                                       *)

DigitsSorted == <<"0", "1", "2", "3", "4", "5", "6", "7", "8", "9">>
IsDigit(c) == \E d \in 1..Len(DigitsSorted) : DigitsSorted[d] = c
DigitVal(c) == (CHOOSE d \in 1..Len(DigitsSorted) : DigitsSorted[d] = c) - 1

RECURSIVE DecimalValue(_, _)
DecimalValue(digits, acc) ==
    IF digits = <<>> THEN acc
    ELSE DecimalValue(Tail(digits), acc * Len(DigitsSorted) + DigitVal(Head(digits)))

\* a parse whose error is dropped: the revision becomes 0
ParseInt_ErrorDropped(str) ==
    LET signed == Len(str) > 0 /\ Head(str) \in {"+", "-"}
        digits == IF signed THEN Tail(str) ELSE str
    IN  IF digits = <<>> \/ \E k \in 1..Len(digits) : ~IsDigit(digits[k]) THEN Some(0)
        ELSE IF signed /\ Head(str) = "-" THEN Some(0 - DecimalValue(digits, 0))
        ELSE Some(DecimalValue(digits, 0))
\* strconv.ParseInt(s, 10, 64): None is the error (values within 64 bits)
ParseInt(str) ==
    LET signed == Len(str) > 0 /\ Head(str) \in {"+", "-"}
        digits == IF signed THEN Tail(str) ELSE str
    IN  IF digits = <<>> \/ \E k \in 1..Len(digits) : ~IsDigit(digits[k]) THEN None
        ELSE IF signed /\ Head(str) = "-" THEN Some(0 - DecimalValue(digits, 0))
        ELSE Some(DecimalValue(digits, 0))

minActiveReplicas == 0

\* a filter that keeps the ReplicaSets scaled to 0
filterActiveReplicaSets_All(rss) == rss
filterActiveReplicaSets(rss) ==
    SelectSeq(rss, LAMBDA rs :
                  getInt32OrDefault(rs.Replicas, minActiveReplicas) > minActiveReplicas)

\* GetReplicaSets, repository.go:73-103: the loop over replicaSets.Items from
\* item i on; the result is [err, oldRS, newRS]
RECURSIVE scanReplicaSets(_, _, _, _, _)
scanReplicaSets(items, i, oldRS, newRS, maxRevision) ==
    IF i > Len(items)
    THEN [err |-> FALSE, oldRS |-> filterActiveReplicaSets(oldRS), newRS |-> newRS]
    ELSE LET rs == items[i]
             parsed == IF rs.Revision = None THEN Some(0) ELSE ParseInt(Val(rs.Revision))
         IN  IF ~rs.Controlled
             THEN scanReplicaSets(items, i + 1, oldRS, newRS, maxRevision)
             ELSE IF parsed = None
             THEN [err |-> TRUE, oldRS |-> <<>>, newRS |-> None]
             ELSE IF Val(parsed) > maxRevision
             THEN scanReplicaSets(items, i + 1,
                                  IF newRS # None THEN Append(oldRS, Val(newRS)) ELSE oldRS,
                                  Some(rs), Val(parsed))
             ELSE scanReplicaSets(items, i + 1, Append(oldRS, rs), newRS, maxRevision)

---------------------------------------------------------------------------
(* The completion estimate.  A time.Time is a natural number of hours, a    *)
(* time.Duration an integer number of hours; time.Duration(f) drops the     *)
(* fraction of f (towards zero).                                            *)

MinProgressForETA == [num |-> 1, den |-> 20]
MaxRealisticETAHours == 24
One == [num |-> 1, den |-> 1]

FracLess(a, b) == a.num * b.den < b.num * a.den

\* time.Duration(float64(elapsed) / progress), progress # 0
Extrapolate(elapsed, progress) ==
    IF elapsed >= 0 THEN (elapsed * progress.den) \div progress.num
    ELSE 0 - (((0 - elapsed) * progress.den) \div progress.num)

\* calculateETA without the comparison of the estimate with the clock
calculateETA_NoUntil(progress, startTime, progressUpdateTime, now) ==
    IF FracLess(progress, MinProgressForETA) \/ ~FracLess(progress, One) THEN None
    ELSE IF progressUpdateTime = None THEN None
    ELSE LET elapsed == Val(progressUpdateTime) - startTime
         IN  IF elapsed <= 0 THEN None
             ELSE LET totalEstimated == Extrapolate(elapsed, progress)
                  IN  IF totalEstimated >= MaxRealisticETAHours THEN None
                      ELSE Some(startTime + totalEstimated)
\* calculateETA, part_003:184-209; now is the clock time.Until(eta) reads
calculateETA(progress, startTime, progressUpdateTime, now) ==
    IF FracLess(progress, MinProgressForETA) \/ ~FracLess(progress, One) THEN None
    ELSE IF progressUpdateTime = None THEN None
    ELSE LET elapsed == Val(progressUpdateTime) - startTime
         IN  IF elapsed <= 0 THEN None
             ELSE LET totalEstimated == Extrapolate(elapsed, progress)
                  IN  IF totalEstimated >= MaxRealisticETAHours THEN None
                      ELSE LET eta == startTime + totalEstimated
                           IN  IF eta - now <= 0 THEN None ELSE Some(eta)

\* buildSnapshot, snapshot.go:154-166; since is the clock time.Since(startTime)
\* reads, now the clock time.Until(eta) reads
inlineETA(progress, startTime, since, now) ==
    IF FracLess(progress, MinProgressForETA) \/ ~FracLess(progress, One) THEN None
    ELSE LET elapsed == since - startTime
             totalEstimated == Extrapolate(elapsed, progress)
         IN  IF totalEstimated >= MaxRealisticETAHours THEN None
             ELSE LET eta == startTime + totalEstimated
                  IN  IF eta - now > 0 THEN Some(eta) ELSE None

---------------------------------------------------------------------------
(* events.go: the event summarizer.  A message is the sequence of tokens    *)
(* Drain splits it into (sanitizeMessage turns line breaks into the blanks  *)
(* the split is made at); a timestamp is a natural number, 0 the zero time. *)

EventTypeWarning == "Warning"
EventTypeNormal == "Normal"
ParamString == "<*>"

\* reasons in lexical order: the order of Go's string comparison
ReasonsSorted == <<"BackOff", "Pulled", "Unhealthy">>
ReasonRank(r) == CHOOSE i \in 1..Len(ReasonsSorted) : ReasonsSorted[i] = r

\* defaultMaskPatterns, on the tokens of the model
maskToken(tok) ==
    CASE tok \in {"10.0.0.5:8080", "10.0.0.6:8080"} -> "<IP:PORT>"
      [] tok \in {"10.0.0.5", "10.0.0.6"} -> "<IP>"
      [] tok \in {"web-5d4f8c7b9-abcde", "web-5d4f8c7b9-fghij"} -> "<POD>"
      [] OTHER -> tok

maskMessage(msg) == [i \in 1..Len(msg) |-> maskToken(msg[i])]

\* drain: hasNumbers(token)
hasNumbers(tok) == tok \in {"3/5", "4/5", "10.0.0.5", "10.0.0.6",
                            "10.0.0.5:8080", "10.0.0.6:8080",
                            "web-5d4f8c7b9-abcde", "web-5d4f8c7b9-fghij"}

\* a chain that goes from the last-observed time to the creation time
getEventTime_SkipEventTime(evt) ==
    IF evt.LastTimestamp # 0 THEN evt.LastTimestamp ELSE evt.CreationTimestamp
getEventTime(evt) ==
    IF evt.LastTimestamp # 0 THEN evt.LastTimestamp
    ELSE IF evt.EventTime # 0 THEN evt.EventTime
    ELSE evt.CreationTimestamp

\* regexp.MatchString of a pattern that is one literal word, on "<reason>: <message>"
MatchString(regex, reason, msg) ==
    regex = reason \/ \E i \in 1..Len(msg) : msg[i] = regex

\* drain.getSeqDistance: <<equal tokens, parameter tokens>> of a template
SimTokens(template, tokens) ==
    Cardinality({i \in 1..Len(tokens) :
                    template[i] # ParamString /\ template[i] = tokens[i]})

ParamCount(template) ==
    Cardinality({i \in 1..Len(template) : template[i] = ParamString})

\* drain.addSeqToPrefixTree: the leaf a new cluster is filed under, with
\* LogClusterDepth 4 (token count, then the first token or the wildcard)
LeafOf(tokens) ==
    IF Len(tokens) <= 1 THEN <<Len(tokens), "">>
    ELSE <<Len(tokens), IF hasNumbers(tokens[1]) THEN ParamString ELSE tokens[1]>>

\* drain.treeSearch: the leaf a message is looked up in (None: no such path)
SearchLeaf(clusters, tokens) ==
    LET n == Len(tokens)
        has(leaf) == \E i \in 1..Len(clusters) : clusters[i].leaf = leaf
    IN  IF n <= 1 THEN (IF has(<<n, "">>) THEN Some(<<n, "">>) ELSE None)
        ELSE IF has(<<n, tokens[1]>>) THEN Some(<<n, tokens[1]>>)
        ELSE IF has(<<n, ParamString>>) THEN Some(<<n, ParamString>>)
        ELSE None

\* a >= b on fractions [num, den]
FracGeq(a, b) == a.num * b.den >= b.num * a.den

\* drain.fastMatch: index of the best cluster of the leaf at or above SimTh, or 0
RECURSIVE fastMatchFrom(_, _, _, _, _)
fastMatchFrom(clusters, leaf, tokens, i, best) ==
    IF i > Len(clusters) THEN best
    ELSE IF clusters[i].leaf # leaf THEN fastMatchFrom(clusters, leaf, tokens, i + 1, best)
    ELSE LET sim == SimTokens(clusters[i].template, tokens)
             pc0 == ParamCount(clusters[i].template)
             better == \/ best = 0
                       \/ sim > SimTokens(clusters[best].template, tokens)
                       \/ /\ sim = SimTokens(clusters[best].template, tokens)
                          /\ pc0 > ParamCount(clusters[best].template)
         IN  fastMatchFrom(clusters, leaf, tokens, i + 1, IF better THEN i ELSE best)

\* fastMatch without the comparison with SimTh
fastMatch_NoThreshold(clusters, leaf, tokens, simTh) ==
    fastMatchFrom(clusters, leaf, tokens, 1, 0)
fastMatch(clusters, leaf, tokens, simTh) ==
    LET best == fastMatchFrom(clusters, leaf, tokens, 1, 0)
    IN  IF best = 0 THEN 0
        ELSE IF Len(tokens) = 0 THEN best
        ELSE IF FracGeq([num |-> SimTokens(clusters[best].template, tokens),
                         den |-> Len(tokens)], simTh)
             THEN best ELSE 0

\* drain.createTemplate
createTemplate(tokens, template) ==
    [i \in 1..Len(tokens) |-> IF tokens[i] = template[i] THEN tokens[i] ELSE ParamString]

\* drain.Train: <<the clusters after training, the index of the message's cluster>>
Train(clusters, tokens, simTh) ==
    LET leaf == SearchLeaf(clusters, tokens)
        m == IF leaf = None THEN 0 ELSE fastMatch(clusters, Val(leaf), tokens, simTh)
    IN  IF m = 0
        THEN <<Append(clusters, [leaf |-> LeafOf(tokens), template |-> tokens]),
               Len(clusters) + 1>>
        ELSE <<[clusters EXCEPT ![m].template = createTemplate(tokens, clusters[m].template)],
               m>>

\* clusterWithDrain, phase 1: train every message in order
\* st = [clusters, assigned] where assigned[i] is the cluster of message i
RECURSIVE TrainAll(_, _, _, _)
TrainAll(messages, simTh, i, st) ==
    IF i > Len(messages) THEN st
    ELSE LET t == Train(st.clusters, maskMessage(messages[i]), simTh)
         IN  TrainAll(messages, simTh, i + 1,
                      [clusters |-> t[1], assigned |-> Append(st.assigned, t[2])])

\* the earliest timestamp in place of the latest
MaxOf_Earliest(S) == IF S = {} THEN 0 ELSE CHOOSE x \in S : \A y \in S : x <= y
MaxOf(S) == IF S = {} THEN 0 ELSE CHOOSE x \in S : \A y \in S : y <= x

\* clusterWithDrain counting the look-alikes of the first message only
clusterWithDrain_LookAlike(group, threshold, eventType, reason) ==
    LET st == TrainAll(group.messages, threshold, 1, [clusters |-> <<>>, assigned |-> <<>>])
        members(c) == {i \in 1..Len(group.messages) : st.assigned[i] = c}
    IN  {[Type |-> eventType, Reason |-> reason,
          Message |-> st.clusters[c].template,
          ExemplarCount |-> Cardinality(members(c)) - 1,
          LastSeen |-> MaxOf({group.times[i] : i \in members(c)}),
          id |-> <<eventType, reason, c>>] : c \in 1..Len(st.clusters)}
\* clusterWithDrain, phases 2 and 3: the set of EventClusters of one group
clusterWithDrain(group, threshold, eventType, reason) ==
    LET st == TrainAll(group.messages, threshold, 1, [clusters |-> <<>>, assigned |-> <<>>])
        members(c) == {i \in 1..Len(group.messages) : st.assigned[i] = c}
    IN  {[Type |-> eventType, Reason |-> reason,
          Message |-> st.clusters[c].template,
          ExemplarCount |-> Cardinality(members(c)),
          LastSeen |-> MaxOf({group.times[i] : i \in members(c)}),
          id |-> <<eventType, reason, c>>] : c \in 1..Len(st.clusters)}

\* an ignore filter that counts the matches and lets them through
Surviving_NoFilter(events, ignoreRegex) == 1..Len(events)
\* SummarizeEvents, the ignore filter: indices of the events that survive
Surviving(events, ignoreRegex) ==
    {i \in 1..Len(events) :
        ~(ignoreRegex # None /\ MatchString(Val(ignoreRegex), events[i].Reason, events[i].Message))}

RECURSIVE SubSeqOf(_, _, _)
SubSeqOf(s, keep, i) ==
    IF i > Len(s) THEN <<>>
    ELSE IF i \in keep THEN <<s[i]>> \o SubSeqOf(s, keep, i + 1)
    ELSE SubSeqOf(s, keep, i + 1)

\* a grouping by the type alone
GroupOf_TypeOnly(events, keep, type, reason) ==
    LET idx == {i \in keep : events[i].Type = type}
        evs == SubSeqOf(events, idx, 1)
    IN  [messages |-> [i \in 1..Len(evs) |-> evs[i].Message],
         times |-> [i \in 1..Len(evs) |-> getEventTime(evs[i])]]
\* SummarizeEvents, grouping: the groupData of one (Type, Reason) key
GroupOf(events, keep, type, reason) ==
    LET idx == {i \in keep : events[i].Type = type /\ events[i].Reason = reason}
        evs == SubSeqOf(events, idx, 1)
    IN  [messages |-> [i \in 1..Len(evs) |-> evs[i].Message],
         times |-> [i \in 1..Len(evs) |-> getEventTime(evs[i])]]

\* a comparator that puts the smaller count first
ClusterLess_Ascending(a, b) ==
    IF a.Type # b.Type THEN a.Type = EventTypeWarning
    ELSE IF a.ExemplarCount # b.ExemplarCount THEN a.ExemplarCount < b.ExemplarCount
    ELSE ReasonRank(a.Reason) < ReasonRank(b.Reason)
\* the comparator handed to sort.Slice
ClusterLess(a, b) ==
    IF a.Type # b.Type THEN a.Type = EventTypeWarning
    ELSE IF a.ExemplarCount # b.ExemplarCount THEN a.ExemplarCount > b.ExemplarCount
    ELSE ReasonRank(a.Reason) < ReasonRank(b.Reason)

\* every order sort.Slice can leave a set of clusters in: the map iteration
\* order of the input is arbitrary and the sort is not stable, so clusters
\* the comparator does not separate come out in any order
SortedOrders(S) ==
    {s \in [1..Cardinality(S) -> S] :
        /\ \A i, j \in 1..Cardinality(S) : i # j => s[i] # s[j]
        /\ \A i, j \in 1..Cardinality(S) : i < j => ~ClusterLess(s[j], s[i])}

StripId(c) == [Type |-> c.Type, Reason |-> c.Reason, Message |-> c.Message,
               ExemplarCount |-> c.ExemplarCount, LastSeen |-> c.LastSeen]

\* a summarizer that skips the matches of the ignore pattern without counting
SummarizeEvents_IgnoredNotCounted(events, ignoreRegex, threshold) ==
    IF Len(events) = 0 THEN {[Clusters |-> <<>>, IgnoredCount |-> 0]}
    ELSE
    LET keep == Surviving(events, ignoreRegex)
        keys == {<<events[i].Type, events[i].Reason>> : i \in keep}
        all == UNION {clusterWithDrain(GroupOf(events, keep, k[1], k[2]),
                                       threshold, k[1], k[2]) : k \in keys}
    IN  {[Clusters |-> [i \in 1..Len(s) |-> StripId(s[i])],
          IgnoredCount |-> 0] : s \in SortedOrders(all)}
\* SummarizeEvents: the set of summaries a call can return
SummarizeEvents(events, ignoreRegex, threshold) ==
    IF Len(events) = 0 THEN {[Clusters |-> <<>>, IgnoredCount |-> 0]}
    ELSE
    LET keep == Surviving(events, ignoreRegex)
        ignoredCount == Len(events) - Cardinality(keep)
        keys == {<<events[i].Type, events[i].Reason>> : i \in keep}
        all == UNION {clusterWithDrain(GroupOf(events, keep, k[1], k[2]),
                                       threshold, k[1], k[2]) : k \in keys}
    IN  {[Clusters |-> [i \in 1..Len(s) |-> StripId(s[i])],
          IgnoredCount |-> ignoredCount] : s \in SortedOrders(all)}

---------------------------------------------------------------------------
(* snapshot.go (revision "warnings"): GetPodWarnings and the warning list   *)

\* "<reason>: <message>" keys of the model in Go's string order
WarningKeysSorted ==
    <<<<"BackOff", <<"restarting", "failed", "container">>>>,
      <<"Unhealthy", <<"Liveness", "probe", "failed">>>>,
      <<"Unhealthy", <<"Readiness", "probe", "failed">>>>>>

KeyRank(k) == CHOOSE i \in 1..Len(WarningKeysSorted) : WarningKeysSorted[i] = k

\* repository.go GetPodWarnings: occurrences of each warning message
GetPodWarnings(events) ==
    LET keys == {<<events[i].Reason, events[i].Message>> :
                    i \in {j \in 1..Len(events) : events[j].Type = EventTypeWarning}}
    IN  [k \in keys |-> Cardinality({i \in 1..Len(events) :
                                        /\ events[i].Type = EventTypeWarning
                                        /\ <<events[i].Reason, events[i].Message>> = k})]

WarningLess(a, b) ==
    IF a.Count # b.Count THEN a.Count > b.Count
    ELSE KeyRank(a.Message) < KeyRank(b.Message)

\* snapshot.go:96-111: filter by the ignore pattern, then sort
SortedWarnings(warningCounts, ignoreRegex) ==
    LET kept == {k \in DOMAIN warningCounts :
                    ~(ignoreRegex # None /\ MatchString(Val(ignoreRegex), k[1], k[2]))}
        entries == {[Message |-> k, Count |-> warningCounts[k]] : k \in kept}
    IN  CHOOSE s \in [1..Cardinality(entries) -> entries] :
            /\ \A i, j \in 1..Cardinality(entries) : i # j => s[i] # s[j]
            /\ \A i, j \in 1..Cardinality(entries) : i < j => WarningLess(s[i], s[j])

IgnoredWarnings(warningCounts, ignoreRegex) ==
    Cardinality({k \in DOMAIN warningCounts :
                    ignoreRegex # None /\ MatchString(Val(ignoreRegex), k[1], k[2])})

---------------------------------------------------------------------------
(* buildSnapshot: the snapshots a cycle can build from what it fetched      *)

\* snapshot.go:150-152 (revision "warnings")
inlineProgress(available, desired) ==
    IF desired > 0 THEN Div(available, desired) ELSE Zero

buildSnapshot_Impl(r, cfg, dep, rs, events, failed) ==
    LET desired == getInt32OrDefault(dep.Replicas, defaultReplicaCount)
        newRSState == Val(rs.newRS)
        oldRSState == aggregateOldRSState(rs.oldRSs)
        base == [Desired |-> desired,
                 NewRS |-> newRSState,
                 OldRS |-> oldRSState,
                 ProgressUpdateTime |-> getProgressUpdateTime(dep.Conditions),
                 Status |-> CalculateRolloutStatus(dep.Conditions)]
    IN  IF r = "warnings"
        THEN {[base EXCEPT !.Desired = desired] @@
              [NewProgress |-> inlineProgress(newRSState.Available, desired),
               OldProgress |-> inlineProgress(oldRSState.Available, desired),
               Events |-> [Clusters |-> IF failed THEN <<>>
                                        ELSE SortedWarnings(GetPodWarnings(events),
                                                            cfg.IgnoreEvents),
                           IgnoredCount |-> IF failed THEN 0
                                            ELSE IgnoredWarnings(GetPodWarnings(events),
                                                                 cfg.IgnoreEvents)]]}
        ELSE {base @@
              [NewProgress |-> calculateProgress(newRSState.Available, desired),
               OldProgress |-> calculateProgress(oldRSState.Available, desired),
               Events |-> ev] :
                 ev \in SummarizeEvents(events, cfg.IgnoreEvents, cfg.SimilarityThreshold)}

\* a builder that adds the ignored count of the snapshot displayed before
buildSnapshot_Accumulating(r, cfg, dep, rs, events, failed) ==
    {[s EXCEPT !.Events.IgnoredCount =
                  @ + (IF rendered = None THEN 0 ELSE Val(rendered).Events.IgnoredCount)] :
        s \in buildSnapshot_Impl(r, cfg, dep, rs, events, failed)}
buildSnapshot(r, cfg, dep, rs, events, failed) ==
    buildSnapshot_Impl(r, cfg, dep, rs, events, failed)

---------------------------------------------------------------------------
(* What the cluster API can answer in the poll loop                         *)

Progressing3 == <<Cond(DeploymentAvailable, ConditionTrue, "ReplicaSetUpdated"),
                  Cond(DeploymentProgressing, ConditionTrue, "ReplicaSetUpdated")>>
Complete3 == <<Cond(DeploymentAvailable, ConditionTrue, "ReplicaSetUpdated"),
               Cond(DeploymentProgressing, ConditionTrue, NewReplicaSetAvailable)>>
Failed3 == <<Cond(DeploymentAvailable, ConditionFalse, "ReplicaSetUpdated"),
             Cond(DeploymentProgressing, ConditionFalse, ProgressDeadlineExceeded)>>

RunDeployments ==
    {[Replicas |-> Some(2), Conditions |-> cs] : cs \in {Complete3, Failed3}}
    \cup {[Replicas |-> None, Conditions |-> Progressing3]}

RunReplicaSets ==
    {[newRS |-> None, oldRSs |-> <<>>],
     [newRS |-> Some(RSState(2, 2, 2)), oldRSs |-> <<>>],
     [newRS |-> Some(RSState(3, 3, 3)), oldRSs |-> <<RSState(2, 2, 1), RSState(2, 2, 2)>>]}

Event(t, r, m, ts) == [Type |-> t, Reason |-> r, Message |-> m,
                       LastTimestamp |-> ts, EventTime |-> 0, CreationTimestamp |-> 1]

EvReadiness == Event(EventTypeWarning, "Unhealthy", <<"Readiness", "probe", "failed">>, 2)
EvLiveness == Event(EventTypeWarning, "Unhealthy", <<"Liveness", "probe", "failed">>, 3)
EvBackOff == Event(EventTypeWarning, "BackOff", <<"restarting", "failed", "container">>, 0)
EvPulled == Event(EventTypeNormal, "Pulled", <<"image", "10.0.0.5:8080">>, 2)

RunEvents == {<<>>, <<EvBackOff, EvReadiness, EvPulled, EvBackOff, EvLiveness>>}

Half == [num |-> 1, den |-> 2]

RunConfigs == [UntilComplete : BOOLEAN, IgnoreEvents : {None, Some("BackOff")},
               SimilarityThreshold : {Half}]

Revisions == {"warnings", "events"}

---------------------------------------------------------------------------
(* monitor.go: Controller.Run and processDeployment; main.go: main          *)

Init ==
    /\ pc = "GetDeployment"
    /\ cycle = 1
    /\ cancelled = FALSE
    /\ tickReady = FALSE
    /\ config \in RunConfigs
    /\ rev \in Revisions
    /\ deployment = None
    /\ replicaSets = None
    /\ rawEvents = None
    /\ warnErr = FALSE
    /\ snapshot = None
    /\ rendered = None
    /\ renders = 0
    /\ ret = "running"
    /\ shutdowns = 0
    /\ exitCode = None
    /\ memo = None
    /\ arg = None
    /\ res = None
    /\ heap = <<>>
    /\ tui = None

\* a Run whose deferred view.Shutdown() is missing
Return_NoShutdown(r) ==
    /\ ret' = r
    /\ pc' = "returned"
    /\ UNCHANGED shutdowns
\* Run returns r: the deferred view.Shutdown() runs (monitor.go:57)
Return(r) ==
    /\ ret' = r
    /\ pc' = "returned"
    /\ shutdowns' = shutdowns + 1

\* the user presses Ctrl+C: signal.NotifyContext cancels ctx
Cancel ==
    /\ pc \notin {"returned", "exited", "pure"}
    /\ ~cancelled
    /\ cancelled' = TRUE
    /\ UNCHANGED <<pc, cycle, tickReady, config, rev, deployment, replicaSets,
                   rawEvents, warnErr, snapshot, rendered, renders, ret,
                   shutdowns, exitCode, memo, arg, res, heap, tui>>

\* the poll interval elapses: the ticker puts a tick into ticker.C
Tick ==
    /\ pc \notin {"returned", "exited", "pure"}
    /\ ~tickReady
    /\ tickReady' = TRUE
    /\ UNCHANGED <<pc, cycle, cancelled, config, rev, deployment, replicaSets,
                   rawEvents, warnErr, snapshot, rendered, renders, ret,
                   shutdowns, exitCode, memo, arg, res, heap, tui>>

\* buildSnapshot: c.repo.GetDeployment; a call with a cancelled ctx fails
GetDeployment ==
    /\ pc = "GetDeployment"
    /\ \/ /\ Return("ErrFetchDeployment")
          /\ UNCHANGED deployment
       \/ /\ ~cancelled
          /\ \E d \in RunDeployments : deployment' = Some(d)
          /\ pc' = "GetReplicaSets"
          /\ UNCHANGED <<ret, shutdowns>>
    /\ UNCHANGED <<cycle, cancelled, tickReady, config, rev, replicaSets,
                   rawEvents, warnErr, snapshot, rendered, renders, exitCode,
                   memo, arg, res, heap, tui>>

\* buildSnapshot: c.repo.GetReplicaSets and the newRS == nil check
GetReplicaSets ==
    /\ pc = "GetReplicaSets"
    /\ \/ /\ Return("ErrFetchReplicaSets")
          /\ UNCHANGED replicaSets
       \/ /\ ~cancelled
          /\ \E rs \in RunReplicaSets :
                /\ replicaSets' = Some(rs)
                /\ IF rs.newRS = None
                   THEN Return("ErrNoNewReplicaSet")
                   ELSE pc' = "GetPodEvents" /\ UNCHANGED <<ret, shutdowns>>
    /\ UNCHANGED <<cycle, cancelled, tickReady, config, rev, deployment,
                   rawEvents, warnErr, snapshot, rendered, renders, exitCode,
                   memo, arg, res, heap, tui>>

\* buildSnapshot: c.repo.GetPodEvents (part_003:249), c.repo.GetPodWarnings
\* (snapshot.go:92); the latter's error is printed and the build goes on
GetPodEvents ==
    /\ pc = "GetPodEvents"
    /\ \/ /\ rev = "events"
          /\ Return("ErrFetchPodEvents")
          /\ UNCHANGED <<rawEvents, warnErr>>
       \/ /\ rev = "warnings"
          /\ warnErr' = TRUE
          /\ pc' = "buildSnapshot"
          /\ UNCHANGED <<rawEvents, ret, shutdowns>>
       \/ /\ ~cancelled
          /\ \E evs \in RunEvents : rawEvents' = Some(evs)
          /\ pc' = "buildSnapshot"
          /\ UNCHANGED <<warnErr, ret, shutdowns>>
    /\ UNCHANGED <<cycle, cancelled, tickReady, config, rev, deployment,
                   replicaSets, snapshot, rendered, renders, exitCode,
                   memo, arg, res, heap, tui>>

\* the raw data of the cycle in progress
Raw == [deployment |-> deployment, replicaSets |-> replicaSets,
        rawEvents |-> rawEvents, warnErr |-> warnErr]

\* buildSnapshot: the computation on the fetched data (no I/O)
BuildSnapshot ==
    /\ pc = "buildSnapshot"
    /\ \E s \in buildSnapshot(rev, config, Val(deployment), Val(replicaSets),
                              IF warnErr THEN <<>> ELSE Val(rawEvents), warnErr) :
          snapshot' = Some(s)
    /\ pc' = "RenderSnapshot"
    /\ UNCHANGED <<cycle, cancelled, tickReady, config, rev, deployment,
                   replicaSets, rawEvents, warnErr, rendered, renders, ret,
                   shutdowns, exitCode, memo, arg, res, heap, tui>>

\* a processDeployment that goes on to the result without the view
RenderSnapshot_Skipped ==
    /\ pc = "RenderSnapshot"
    /\ pc' = "result"
    /\ UNCHANGED <<cycle, cancelled, tickReady, config, rev, deployment,
                   replicaSets, rawEvents, warnErr, snapshot, rendered, renders,
                   ret, shutdowns, exitCode, memo, arg, res, heap, tui>>
\* processDeployment: c.view.RenderSnapshot(snapshot) of ConsoleView
RenderSnapshot ==
    /\ pc = "RenderSnapshot"
    /\ rendered' = snapshot
    /\ renders' = renders + 1
    /\ pc' = "result"
    /\ UNCHANGED <<cycle, cancelled, tickReady, config, rev, deployment,
                   replicaSets, rawEvents, warnErr, snapshot, ret, shutdowns,
                   exitCode, memo, arg, res, heap, tui>>

\* Run, monitor.go:69-78: the check of result.Done
CheckDone ==
    /\ pc = "result"
    /\ IF IsDone(Val(snapshot).Status) /\ config.UntilComplete
       THEN IF IsFailed(Val(snapshot).Status)
            THEN Return("ErrProgressDeadlineExceeded")
            ELSE Return("nil")
       ELSE pc' = "select" /\ UNCHANGED <<ret, shutdowns>>
    /\ UNCHANGED <<cycle, cancelled, tickReady, config, rev, deployment,
                   replicaSets, rawEvents, warnErr, snapshot, rendered, renders,
                   exitCode, memo, arg, res, heap, tui>>

\* Run, monitor.go:80-83: select takes <-ctx.Done()
SelectDone ==
    /\ pc = "select"
    /\ cancelled
    /\ Return("ErrCancelled")
    /\ UNCHANGED <<cycle, cancelled, tickReady, config, rev, deployment,
                   replicaSets, rawEvents, warnErr, snapshot, rendered, renders,
                   exitCode, memo, arg, res, heap, tui>>

\* a new cycle starts although the previous one is still in progress
SelectTick_Overlap ==
    /\ pc \in {"GetReplicaSets", "GetPodEvents", "buildSnapshot", "RenderSnapshot",
               "result", "select"}
    /\ tickReady
    /\ cycle < MaxCycles
    /\ tickReady' = FALSE
    /\ cycle' = cycle + 1
    /\ pc' = "GetDeployment"
    /\ deployment' = None
    /\ replicaSets' = None
    /\ rawEvents' = None
    /\ warnErr' = FALSE
    /\ snapshot' = None
    /\ UNCHANGED <<cancelled, config, rev, rendered, renders, ret, shutdowns,
                   exitCode, memo, arg, res, heap, tui>>
\* Run, monitor.go:84: select takes <-ticker.C and the loop goes round;
\* when ctx.Done() is ready too, Go's select picks either case
SelectTick ==
    /\ pc = "select"
    /\ tickReady
    /\ cycle < MaxCycles
    /\ tickReady' = FALSE
    /\ cycle' = cycle + 1
    /\ pc' = "GetDeployment"
    /\ deployment' = None
    /\ replicaSets' = None
    /\ rawEvents' = None
    /\ warnErr' = FALSE
    /\ snapshot' = None
    /\ UNCHANGED <<cancelled, config, rev, rendered, renders, ret, shutdowns,
                   exitCode, memo, arg, res, heap, tui>>

\* main.go:203-214 and runMonitor:323-328: any error of Run exits with 1
MainExit ==
    /\ pc = "returned"
    /\ exitCode' = Some(IF ret = "nil" THEN 0 ELSE 1)
    /\ pc' = "exited"
    /\ UNCHANGED <<cycle, cancelled, tickReady, config, rev, deployment,
                   replicaSets, rawEvents, warnErr, snapshot, rendered, renders,
                   ret, shutdowns, memo, arg, res, heap, tui>>

Next ==
    \/ Cancel
    \/ Tick
    \/ GetDeployment
    \/ GetReplicaSets
    \/ GetPodEvents
    \/ BuildSnapshot
    \/ RenderSnapshot
    \/ CheckDone
    \/ SelectDone
    \/ SelectTick
    \/ MainExit

Spec == Init /\ [][Next]_vars

\* history only: keep the raw data and the snapshot of one cycle for later
\* comparison with the cycles that follow
Remember ==
    /\ pc = "RenderSnapshot"
    /\ memo = None
    /\ memo' = Some([cycle |-> cycle, raw |-> Raw, snapshot |-> Val(snapshot)])
    /\ UNCHANGED <<pc, cycle, cancelled, tickReady, config, rev, deployment,
                   replicaSets, rawEvents, warnErr, snapshot, rendered, renders,
                   ret, shutdowns, exitCode, arg, res, heap, tui>>

NextStateless == Next \/ Remember

SpecStateless == Init /\ [][NextStateless]_vars

---------------------------------------------------------------------------
(* The pure functions on their own: Init draws the input, one step applies  *)
(* the function                                                             *)

Idle ==
    /\ pc = "pure"
    /\ cycle = 0
    /\ cancelled = FALSE
    /\ tickReady = FALSE
    /\ config = [UntilComplete |-> FALSE, IgnoreEvents |-> None,
                 SimilarityThreshold |-> Half]
    /\ rev = "events"
    /\ deployment = None
    /\ replicaSets = None
    /\ rawEvents = None
    /\ warnErr = FALSE
    /\ snapshot = None
    /\ rendered = None
    /\ renders = 0
    /\ ret = "running"
    /\ shutdowns = 0
    /\ exitCode = None
    /\ memo = None
    /\ heap = <<>>
    /\ tui = None

ConditionLists == SeqsUpTo(Conditions, MaxConds)

InitClassify ==
    /\ Idle
    /\ arg \in ConditionLists
    /\ res = None

Classify ==
    /\ res = None
    /\ res' = Some(CalculateRolloutStatus(arg))
    /\ UNCHANGED <<runVars, arg>>

SpecClassify == InitClassify /\ [][Classify]_vars

\* replica counts as the API reports them: available <= ready <= current
ReplicaSetStates ==
    UNION {{RSState(MaxAvailable, a, a), RSState(MaxAvailable, MaxAvailable, a)} :
              a \in 0..MaxAvailable}

ProgressInputs ==
    [Replicas : {None} \cup {Some(n) : n \in 0..MaxReplicas},
     newRS : ReplicaSetStates,
     oldRSs : SeqsUpTo(ReplicaSetStates, MaxOldRS)]

InitProgress ==
    /\ Idle
    /\ arg \in ProgressInputs
    /\ res = None

\* buildSnapshot, part_003:255-265
Progress ==
    /\ res = None
    /\ LET desired == getInt32OrDefault(arg.Replicas, defaultReplicaCount)
           oldRSState == aggregateOldRSState(arg.oldRSs)
       IN  res' = Some([Desired |-> desired,
                        NewRS |-> arg.newRS,
                        OldRS |-> oldRSState,
                        NewProgress |-> calculateProgress(arg.newRS.Available, desired),
                        OldProgress |-> calculateProgress(oldRSState.Available, desired)])
    /\ UNCHANGED <<runVars, arg>>

SpecProgress == InitProgress /\ [][Progress]_vars

\* the progress ratios buildSnapshot can hand over
ETAProgress == {calculateProgress(a, d) : a \in 0..3, d \in {0, 2, 20, 21}}

\* the local clock never runs backwards between its two readings
ETAInputs ==
    {i \in [rev : Revisions,
            progress : ETAProgress,
            startTime : 0..MaxTime,
            progressUpdateTime : {None} \cup {Some(t) : t \in 0..MaxTime},
            since : 0..MaxTime,
            now : 0..MaxTime] : i.since <= i.now}

InitETA ==
    /\ Idle
    /\ arg \in ETAInputs
    /\ res = None

\* buildSnapshot: the EstimatedCompletion of the snapshot
EstimateCompletion ==
    /\ res = None
    /\ res' = Some([EstimatedCompletion |->
                       IF arg.rev = "events"
                       THEN calculateETA(arg.progress, arg.startTime,
                                         arg.progressUpdateTime, arg.now)
                       ELSE inlineETA(arg.progress, arg.startTime, arg.since, arg.now)])
    /\ UNCHANGED <<runVars, arg>>

SpecETA == InitETA /\ [][EstimateCompletion]_vars

\* events the API can return for the pods of a ReplicaSet
EventPool ==
    {EvReadiness, EvLiveness, EvBackOff, EvPulled,
     Event(EventTypeWarning, "BackOff", <<"Readiness", "probe", "failed">>, 4),
     Event(EventTypeNormal, "Unhealthy", <<"Readiness", "probe", "failed">>, 1),
     Event(EventTypeNormal, "Pulled", <<"image", "10.0.0.6:8080">>, 5),
     Event(EventTypeWarning, "Unhealthy", <<"Readiness", "probe", "failed">>, 5)}

DefaultSimilarityThreshold == [num |-> 17, den |-> 20]

SummarizeInputs ==
    [events : SeqsUpTo(EventPool, MaxEvents),
     ignoreRegex : {None, Some("BackOff"), Some("Liveness")},
     threshold : {Half, DefaultSimilarityThreshold}]

InitSummarize ==
    /\ Idle
    /\ arg \in SummarizeInputs
    /\ res = None

\* a call of SummarizeEvents
Summarize ==
    /\ res = None
    /\ \E s \in SummarizeEvents(arg.events, arg.ignoreRegex, arg.threshold) :
          res' = Some(s)
    /\ UNCHANGED <<runVars, arg>>

\* another call of SummarizeEvents on the same batch
SummarizeAgain ==
    /\ pc = "pure"
    /\ res # None
    /\ memo = None
    /\ arg \in SummarizeInputs
    /\ \E s \in SummarizeEvents(arg.events, arg.ignoreRegex, arg.threshold) :
          memo' = Some(s)
    /\ UNCHANGED <<pc, cycle, cancelled, tickReady, config, rev, deployment,
                   replicaSets, rawEvents, warnErr, snapshot, rendered, renders,
                   ret, shutdowns, exitCode, arg, res, heap, tui>>

SpecSummarize == InitSummarize /\ [][Summarize \/ SummarizeAgain]_vars

\* messages of the events of one (type, reason) group
MessagePool ==
    {<<"Readiness", "probe", "failed">>, <<"Liveness", "probe", "failed">>,
     <<"Readiness", "check", "errored">>, <<"Readiness", "probe", "errored">>,
     <<"image", "10.0.0.5:8080">>, <<"image", "10.0.0.6:8080">>,
     <<"3/5", "probe", "failed">>}

ClusterInputs ==
    [messages : SeqsUpTo(MessagePool, MaxEvents),
     threshold : {Half, DefaultSimilarityThreshold}]

\* clusterWithDrain, events.go:116-126: a fresh Drain, nothing trained
InitCluster ==
    /\ Idle
    /\ arg \in ClusterInputs
    /\ res = Some([clusters |-> <<>>, assigned |-> <<>>])

\* clusterWithDrain, events.go:128-134: one round of the training loop
TrainNext ==
    /\ pc = "pure"
    /\ res # None
    /\ arg \in ClusterInputs
    /\ Len(Val(res).assigned) < Len(arg.messages)
    /\ LET i == Len(Val(res).assigned) + 1
           t == Train(Val(res).clusters, maskMessage(arg.messages[i]), arg.threshold)
       IN  res' = Some([clusters |-> t[1], assigned |-> Append(Val(res).assigned, t[2])])
    /\ UNCHANGED <<runVars, arg>>

SpecCluster == InitCluster /\ [][TrainNext]_vars

\* buildSnapshot, part_003:240-247: what the build does with the answer of
\* GetReplicaSets: wrap its error, or fail for want of a new ReplicaSet
replicaSetsOutcome(sel) ==
    IF sel.err THEN "ErrFetchReplicaSets"
    ELSE IF sel.newRS = None THEN "ErrNoNewReplicaSet"
    ELSE "GetPodEvents"
\* the three timestamps of a corev1.Event, each set or the zero time
EventTimes ==
    [LastTimestamp : 0..MaxTime, EventTime : 0..MaxTime, CreationTimestamp : 0..MaxTime]

InitEventTime ==
    /\ Idle
    /\ arg \in EventTimes
    /\ res = None

\* a call of getEventTime
ResolveTime ==
    /\ res = None
    /\ arg \in EventTimes
    /\ res' = Some(getEventTime(arg))
    /\ UNCHANGED <<runVars, arg>>

SpecEventTime == InitEventTime /\ [][ResolveTime]_vars
\* LineRenderer.formatMetadata: the bracket it prints, or the nil pointer
\* dereference of snapshot.ProgressUpdateTime.Sub
formatMetadata(s) ==
    IF IsDone(s.Status)
    THEN (IF s.ProgressUpdateTime = None THEN "nil dereference" ELSE "DUR")
    ELSE "ETA"

InitStatusTime ==
    /\ Idle
    /\ arg \in ConditionLists
    /\ res = None

\* buildSnapshot, part_003:267-283: the Status and the ProgressUpdateTime of
\* the snapshot
StatusAndTime ==
    /\ res = None
    /\ arg \in ConditionLists
    /\ res' = Some([Status |-> CalculateRolloutStatus(arg),
                    ProgressUpdateTime |-> getProgressUpdateTime(arg)])
    /\ UNCHANGED <<runVars, arg>>

SpecStatusTime == InitStatusTime /\ [][StatusAndTime]_vars
\* values of the revision annotation of a ReplicaSet
RevisionStrings ==
    {<<>>, <<"0">>, <<"1">>, <<"2">>, <<"1", "2">>, <<"-", "1">>, <<"+", "2">>,
     <<"x">>, <<"1", "x">>, <<"-">>}

\* the items of the ReplicaSet list the API returns
ReplicaSetItems ==
    [Controlled : BOOLEAN,
     Revision : {None} \cup {Some(str) : str \in RevisionStrings},
     Replicas : {Some(0), Some(1)}]

InitSelect ==
    /\ Idle
    /\ arg \in SeqsUpTo(ReplicaSetItems, MaxItems)
    /\ res = None

\* DeploymentRepository.GetReplicaSets after a successful List
SelectReplicaSets ==
    /\ res = None
    /\ res' = Some(scanReplicaSets(arg, 1, <<>>, None, 0))
    /\ UNCHANGED <<runVars, arg>>

SpecSelect == InitSelect /\ [][SelectReplicaSets]_vars

---------------------------------------------------------------------------
(* internal/tui: the bubbletea view.  tea.Program has one event loop, which *)
(* takes a message from the unbuffered channel msgs, calls Model.Update and *)
(* then Model.View; Program.Send hands a message to the loop when the loop  *)
(* is receiving and is a no-op once the program has finished.  A snapshot   *)
(* is the object at an address of heap; a component keeps the address.      *)

\* messages.go: the messages the loop receives
SnapshotMsg(id) == [kind |-> "SnapshotMsg", Snapshot |-> id, key |-> ""]
TickMsg == [kind |-> "TickMsg", Snapshot |-> 0, key |-> ""]
KeyMsg(k) == [kind |-> "KeyMsg", Snapshot |-> 0, key |-> k]
WindowSizeMsg == [kind |-> "WindowSizeMsg", Snapshot |-> 0, key |-> ""]

NewModel ==
    [width |-> 0, hasData |-> FALSE, quitting |-> FALSE,
     rolloutInfo |-> None, podStats |-> None, podsGrid |-> None,
     eventsTable |-> None, deploymentName |-> "", percent |-> Zero]

\* a component that drops its snapshot on any other message
componentUpdate_Forget(ref, msg) ==
    IF msg.kind = "SnapshotMsg" THEN Some(msg.Snapshot) ELSE None
\* RolloutInfo.Update, PodStats.Update, PodsGrid.Update, EventsTable.Update
componentUpdate(ref, msg) ==
    IF msg.kind = "SnapshotMsg" THEN Some(msg.Snapshot) ELSE ref

\* Model.Update: the Model after the message and the commands returned
ModelUpdate(h, m, msg) ==
    CASE msg.kind = "WindowSizeMsg" ->
            [model |-> [m EXCEPT !.width = 1], tick |-> FALSE, quit |-> FALSE]
      [] msg.kind = "KeyMsg" ->
            IF msg.key \in {"q", "ctrl+c"}
            THEN [model |-> [m EXCEPT !.quitting = TRUE], tick |-> FALSE, quit |-> TRUE]
            ELSE [model |-> m, tick |-> FALSE, quit |-> FALSE]
      [] msg.kind = "SnapshotMsg" ->
            [model |-> [m EXCEPT !.hasData = TRUE,
                                 !.rolloutInfo = componentUpdate(@, msg),
                                 !.percent = h[msg.Snapshot].NewProgress,
                                 !.podStats = componentUpdate(@, msg),
                                 !.podsGrid = componentUpdate(@, msg),
                                 !.eventsTable = componentUpdate(@, msg),
                                 !.deploymentName = h[msg.Snapshot].DeploymentName],
             tick |-> FALSE, quit |-> FALSE]
      [] msg.kind = "TickMsg" ->
            [model |-> [m EXCEPT !.rolloutInfo = componentUpdate(@, msg),
                                 !.podStats = componentUpdate(@, msg),
                                 !.eventsTable = componentUpdate(@, msg)],
             tick |-> TRUE, quit |-> FALSE]

formatEventRows(events) ==
    [i \in 1..Len(events) |-> [eventType |-> events[i].Type,
                               reason |-> events[i].Reason,
                               message |-> events[i].Message,
                               similar |-> events[i].ExemplarCount]]

\* a table that turns its rows round in the slice of the snapshot
EventsTableView_InPlace(h, ref) ==
    IF ref = None THEN [out |-> <<>>, heap |-> h]
    ELSE LET events == h[Val(ref)].Events.Clusters
             turned == [i \in 1..Len(events) |-> events[Len(events) + 1 - i]]
         IN  [out |-> formatEventRows(turned),
              heap |-> [h EXCEPT ![Val(ref)].Events.Clusters = turned]]
\* EventsTable.View: the rows written and the heap it leaves
EventsTableView(h, ref) ==
    IF ref = None THEN [out |-> <<>>, heap |-> h]
    ELSE [out |-> formatEventRows(h[Val(ref)].Events.Clusters), heap |-> h]

\* what a view has on the screen
Frame(screen, name, percent, status, metadata, pods, grid, rows) ==
    [screen |-> screen, name |-> name, percent |-> percent, status |-> status,
     metadata |-> metadata, pods |-> pods, grid |-> grid, rows |-> rows]

Blank(screen) == Frame(screen, "", Zero, "", "", RSState(0, 0, 0), RSState(0, 0, 0), <<>>)

\* Model.View: the frame written and the heap it leaves
ModelView(h, m) ==
    IF m.quitting \/ m.width = 0 THEN [frame |-> Blank(""), heap |-> h]
    ELSE IF ~m.hasData THEN [frame |-> Blank("Loading..."), heap |-> h]
    ELSE LET table == EventsTableView(h, m.eventsTable)
         IN  [frame |-> Frame("layout", m.deploymentName, m.percent,
                              h[Val(m.rolloutInfo)].Status, "",
                              h[Val(m.podStats)].NewRS,
                              h[Val(m.podsGrid)].OldRS,
                              table.out),
              heap |-> table.heap]

\* LineRenderer.RenderSnapshot: the lines written and the heap it leaves
LineRenderSnapshot(h, id) ==
    [frame |-> Frame("lines", "", Zero, h[id].Status, formatMetadata(h[id]),
                     h[id].NewRS, h[id].OldRS,
                     formatEventRows(h[id].Events.Clusters)),
     heap |-> h]

\* tui.NewView / monitor.NewLineView
NewView(mode) ==
    [mode |-> mode,
     loop |-> IF mode = "tui" THEN "starting" ELSE "off",
     msg |-> None, handled |-> "", ticker |-> FALSE, quitCmd |-> FALSE,
     model |-> NewModel, frame |-> Blank("")]

\* Program.Send returns at once: the loop is at its receive, or has finished
CanSend(t) == t.loop \in {"receiving", "quit"}

\* the snapshots buildSnapshot hands to the view
SnapshotPool ==
    UNION {{[s EXCEPT !.Desired = 3] @@ [DeploymentName |-> "web"] :
               s \in buildSnapshot("events",
                                   [UntilComplete |-> FALSE, IgnoreEvents |-> None,
                                    SimilarityThreshold |-> Half],
                                   d, [newRS |-> Some(RSState(3, 3, 3)),
                                       oldRSs |-> <<RSState(2, 2, 1)>>],
                                   <<EvBackOff, EvReadiness, EvPulled>>, FALSE)} :
              d \in {[Replicas |-> Some(3), Conditions |-> cs] :
                        cs \in {Progressing3, Complete3}}}

InitTUI ==
    /\ pc = "buildSnapshot"
    /\ cycle = 1
    /\ cancelled = FALSE
    /\ tickReady = FALSE
    /\ config = [UntilComplete |-> FALSE, IgnoreEvents |-> None,
                 SimilarityThreshold |-> Half]
    /\ rev = "events"
    /\ deployment = None
    /\ replicaSets = None
    /\ rawEvents = None
    /\ warnErr = FALSE
    /\ snapshot = None
    /\ rendered = None
    /\ renders = 0
    /\ ret = "running"
    /\ shutdowns = 0
    /\ exitCode = None
    /\ memo = None
    /\ arg = None
    /\ res = None
    /\ heap = <<>>
    /\ tui \in {NewView("tui"), NewView("line")}

pollVars == <<cancelled, tickReady, config, rev, deployment, replicaSets,
              rawEvents, warnErr, exitCode, memo, arg, res>>

\* processDeployment: buildSnapshot returns a new snapshot
PollBuild ==
    /\ pc = "buildSnapshot"
    /\ tui # None
    /\ \E s \in SnapshotPool :
          /\ heap' = Append(heap, s)
          /\ snapshot' = Some(s)
    /\ pc' = "RenderSnapshot"
    /\ UNCHANGED <<pollVars, cycle, rendered, renders, ret, shutdowns, tui>>

\* tui.View.RenderSnapshot: v.program.Send(SnapshotMsg{Snapshot: snapshot})
SendSnapshot ==
    /\ pc = "RenderSnapshot"
    /\ tui # None
    /\ tui.mode = "tui"
    /\ CanSend(tui)
    /\ tui' = IF tui.loop = "receiving"
              THEN [tui EXCEPT !.loop = "updating", !.msg = Some(SnapshotMsg(Len(heap)))]
              ELSE tui
    /\ renders' = renders + 1
    /\ pc' = "select"
    /\ UNCHANGED <<pollVars, cycle, snapshot, rendered, ret, shutdowns, heap>>

\* LineView.RenderSnapshot
LineRender ==
    /\ pc = "RenderSnapshot"
    /\ tui # None
    /\ tui.mode = "line"
    /\ LET r == LineRenderSnapshot(heap, Len(heap))
       IN  /\ tui' = [tui EXCEPT !.frame = r.frame]
           /\ heap' = r.heap
    /\ rendered' = snapshot
    /\ renders' = renders + 1
    /\ pc' = "select"
    /\ UNCHANGED <<pollVars, cycle, snapshot, ret, shutdowns>>

\* Run: the ticker fires and the loop goes round
PollNext ==
    /\ pc = "select"
    /\ tui # None
    /\ cycle < MaxCycles
    /\ cycle' = cycle + 1
    /\ snapshot' = None
    /\ pc' = "buildSnapshot"
    /\ UNCHANGED <<pollVars, rendered, renders, ret, shutdowns, heap, tui>>

\* Run returns (a failed build, a cancelled context) and the deferred
\* Shutdown runs: v.program.Quit(), then <-v.done
PollReturn ==
    /\ pc \in {"buildSnapshot", "select"}
    /\ tui # None
    /\ tui.mode = "tui" => CanSend(tui)
    /\ Return(IF pc = "select" THEN "ErrCancelled" ELSE "ErrFetchDeployment")
    /\ tui' = IF tui.mode = "tui" THEN [tui EXCEPT !.loop = "quit"] ELSE tui
    /\ UNCHANGED <<pollVars, cycle, snapshot, rendered, renders, heap>>

\* the goroutine of NewView: program.Run() reaches its event loop; Model.Init
\* has returned tickCmd and the first frame is written
StartProgram ==
    /\ tui # None
    /\ tui.loop = "starting"
    /\ LET v == ModelView(heap, tui.model)
       IN  /\ tui' = [tui EXCEPT !.loop = "receiving", !.ticker = TRUE, !.frame = v.frame]
           /\ heap' = v.heap
    /\ UNCHANGED <<pollVars, pc, cycle, snapshot, rendered, renders, ret, shutdowns>>

\* tickCmd: the second is over and the command's goroutine sends TickMsg
DeliverTick ==
    /\ tui # None
    /\ tui.ticker
    /\ CanSend(tui)
    /\ tui' = IF tui.loop = "receiving"
              THEN [tui EXCEPT !.ticker = FALSE, !.loop = "updating", !.msg = Some(TickMsg)]
              ELSE [tui EXCEPT !.ticker = FALSE]
    /\ UNCHANGED <<pollVars, pc, cycle, snapshot, rendered, renders, ret, shutdowns, heap>>

\* the user presses a key
KeyPress ==
    /\ tui # None
    /\ tui.loop = "receiving"
    /\ \E k \in {"q", "x"} :
          tui' = [tui EXCEPT !.loop = "updating", !.msg = Some(KeyMsg(k))]
    /\ UNCHANGED <<pollVars, pc, cycle, snapshot, rendered, renders, ret, shutdowns, heap>>

\* the terminal reports its size
Resize ==
    /\ tui # None
    /\ tui.loop = "receiving"
    /\ tui' = [tui EXCEPT !.loop = "updating", !.msg = Some(WindowSizeMsg)]
    /\ UNCHANGED <<pollVars, pc, cycle, snapshot, rendered, renders, ret, shutdowns, heap>>

\* tea.Quit, returned by Model.Update for the quit key, reaches the loop
DeliverQuit ==
    /\ tui # None
    /\ tui.quitCmd
    /\ CanSend(tui)
    /\ tui' = [tui EXCEPT !.quitCmd = FALSE, !.loop = "quit"]
    /\ UNCHANGED <<pollVars, pc, cycle, snapshot, rendered, renders, ret, shutdowns, heap>>

\* the event loop: Model.Update of the message taken, then Model.View
FinishUpdate ==
    /\ tui # None
    /\ tui.loop = "updating"
    /\ LET u == ModelUpdate(heap, tui.model, Val(tui.msg))
           v == ModelView(heap, u.model)
       IN  /\ tui' = [tui EXCEPT !.loop = "receiving", !.msg = None,
                                 !.handled = Val(tui.msg).kind,
                                 !.model = u.model,
                                 !.ticker = @ \/ u.tick,
                                 !.quitCmd = @ \/ u.quit,
                                 !.frame = v.frame]
           /\ heap' = v.heap
    /\ UNCHANGED <<pollVars, pc, cycle, snapshot, rendered, renders, ret, shutdowns>>

NextTUI ==
    \/ PollBuild
    \/ SendSnapshot
    \/ LineRender
    \/ PollNext
    \/ PollReturn
    \/ StartProgram
    \/ DeliverTick
    \/ KeyPress
    \/ Resize
    \/ DeliverQuit
    \/ FinishUpdate

SpecTUI == InitTUI /\ [][NextTUI]_vars

---------------------------------------------------------------------------
(* Properties                                                               *)

Terminal(s) == s \in {StatusComplete, StatusDeadlineExceeded}

\* C1: poll cycles never overlap: the fetch of cycle n+1 starts only after
\* RenderSnapshot of cycle n has returned, so while cycle n fetches, builds or
\* renders, exactly n-1 renders have returned, and after its render exactly n
C1_NoOverlap ==
    /\ cycle <= renders + 1
    /\ pc \in {"GetDeployment", "GetReplicaSets", "GetPodEvents", "buildSnapshot",
               "RenderSnapshot"} => renders = cycle - 1
    /\ pc \in {"result", "select"} => renders = cycle

C1_Witness == cycle = 2 /\ pc = "RenderSnapshot" /\ renders = 1

\* a step that issues a fetch of the cluster API
IssuesFetch == pc \in {"GetDeployment", "GetReplicaSets", "GetPodEvents"} /\ pc' # pc

\* C2: once cancellation has been signalled no new fetch is issued
C2_NoFetchAfterCancel == [][cancelled => ~IssuesFetch]_vars

FetchFailed ==
    \/ warnErr
    \/ ret \in {"ErrFetchDeployment", "ErrFetchReplicaSets", "ErrFetchPodEvents"}

\* C3: a cycle in which a fetch failed produces and renders no snapshot: the
\* error is returned instead
C3_FetchFailureAbortsCycle ==
    FetchFailed => /\ snapshot = None
                   /\ renders < cycle
                   /\ pc \in {"returned", "exited"}

\* C4: Run ends because of the rollout status iff UntilComplete is set: in
\* continuous mode it never returns nil or ErrProgressDeadlineExceeded; in
\* single-rollout mode it never waits for a tick behind a terminal status, and
\* returns nil for Complete and ErrProgressDeadlineExceeded for DeadlineExceeded
C4_ExitOnStatusIffUntilComplete ==
    /\ ret \in {"nil", "ErrProgressDeadlineExceeded"} =>
          /\ config.UntilComplete
          /\ rendered = snapshot
          /\ snapshot # None
          /\ Terminal(Val(snapshot).Status)
          /\ ret = "nil" <=> Val(snapshot).Status = StatusComplete
    /\ (pc = "select" /\ config.UntilComplete) => ~Terminal(Val(snapshot).Status)

C4_Witness ==
    /\ ret = "ErrProgressDeadlineExceeded"
    /\ cycle = 2
    /\ Val(snapshot).Status = StatusDeadlineExceeded

\* C5: an interrupt by Ctrl+C ends the program with exit code 0
C5_CtrlCExitsZero == (ret = "ErrCancelled" /\ exitCode # None) => Val(exitCode) = 0

AtMostOneProgressing(conditions) ==
    \A i, j \in 1..Len(conditions) :
        (conditions[i].Type = DeploymentProgressing
         /\ conditions[j].Type = DeploymentProgressing) => i = j

Holds(conditions, t, s) ==
    \E c \in {conditions[i] : i \in 1..Len(conditions)} : c.Type = t /\ c.Status = s

HoldsFor(conditions, t, s, r) ==
    \E c \in {conditions[i] : i \in 1..Len(conditions)} :
        c.Type = t /\ c.Status = s /\ c.Reason = r

\* C6: for every condition set (it holds one Progressing condition at most)
\* the status is Complete iff Available is true and Progressing is true with
\* reason NewReplicaSetAvailable, DeadlineExceeded iff Progressing is false
\* with reason ProgressDeadlineExceeded, and Progressing otherwise
C6_Classification ==
    (res # None /\ AtMostOneProgressing(arg)) =>
        LET complete == /\ Holds(arg, "Available", "True")
                        /\ HoldsFor(arg, "Progressing", "True", "NewReplicaSetAvailable")
            failed == HoldsFor(arg, "Progressing", "False", "ProgressDeadlineExceeded")
        IN  /\ Val(res) = StatusComplete <=> complete
            /\ Val(res) = StatusDeadlineExceeded <=> failed
            /\ Val(res) = StatusProgressing <=> (~complete /\ ~failed)

C6_Witness ==
    /\ res = Some(StatusDeadlineExceeded)
    /\ AtMostOneProgressing(arg)
    /\ Len(arg) = 3
    /\ Holds(arg, "Available", "True")

\* the classifier with the two checks in the other order
CalculateRolloutStatusFailedFirst(conditions) ==
    IF isDeploymentFailed(conditions) THEN StatusDeadlineExceeded
    ELSE IF isDeploymentComplete(conditions) THEN StatusComplete
    ELSE StatusProgressing

\* C7 as stated: for any condition list the Complete and the DeadlineExceeded
\* predicate are never both satisfied and the order of the checks is immaterial
C7_MutuallyExclusive ==
    res # None =>
        /\ ~(isDeploymentComplete(arg) /\ isDeploymentFailed(arg))
        /\ Val(res) = CalculateRolloutStatusFailedFirst(arg)

\* C7 amended: the same for any condition list with at most one Progressing
\* condition
C7_MutuallyExclusiveIfOneProgressing ==
    (res # None /\ AtMostOneProgressing(arg)) =>
        /\ ~(isDeploymentComplete(arg) /\ isDeploymentFailed(arg))
        /\ Val(res) = CalculateRolloutStatusFailedFirst(arg)

C7_Witness ==
    /\ res = Some(StatusDeadlineExceeded)
    /\ AtMostOneProgressing(arg)
    /\ Holds(arg, "Available", "True")
    /\ Cardinality({i \in 1..Len(arg) : arg[i].Type = "Available"}) = 2

IsPermutation(a, b) ==
    /\ Len(a) = Len(b)
    /\ \E f \in [1..Len(a) -> 1..Len(a)] :
          /\ \A i, j \in 1..Len(a) : f[i] = f[j] => i = j
          /\ \A i \in 1..Len(a) : a[i] = b[f[i]]

\* C8: status, progress ratios and event summary (its clusters with their
\* counts in whatever order, its ignored count) of the snapshot of a cycle are
\* those of any earlier cycle that fetched the same raw data
C8_Stateless ==
    (snapshot # None /\ memo # None /\ Val(memo).cycle < cycle /\ Val(memo).raw = Raw) =>
        LET s == Val(snapshot)
            m == Val(memo).snapshot
        IN  /\ s.Status = m.Status
            /\ s.NewProgress = m.NewProgress
            /\ s.OldProgress = m.OldProgress
            /\ s.Events.IgnoredCount = m.Events.IgnoredCount
            /\ IsPermutation(s.Events.Clusters, m.Events.Clusters)

C8_Witness ==
    /\ snapshot # None
    /\ memo # None
    /\ Val(memo).cycle < cycle
    /\ Val(memo).raw = Raw
    /\ rev = "events"
    /\ Val(snapshot).Events.IgnoredCount = 2
    /\ Len(Val(snapshot).Events.Clusters) = 3
    /\ Val(snapshot).NewProgress.num > 0

InUnitInterval(p) == 0 <= p.num /\ p.num <= p.den

\* C9: both progress ratios of a snapshot lie in [0,1]
C9_ProgressInUnitInterval ==
    res # None => /\ InUnitInterval(Val(res).NewProgress)
                  /\ InUnitInterval(Val(res).OldProgress)

\* p is the quotient a / d, d > 0
IsQuotient(p, a, d) == p.den > 0 /\ p.num * d = a * p.den

\* C10: calculateProgress(available, desired) is available/desired when
\* desired > 0 and 0 when desired = 0, whatever available is; progress(0, d) = 0
C10_ProgressValue ==
    res # None =>
        LET d == Val(res).Desired
            a == arg.newRS.Available
            o == Val(res).OldRS.Available
        IN  /\ d > 0 => /\ IsQuotient(Val(res).NewProgress, a, d)
                        /\ IsQuotient(Val(res).OldProgress, o, d)
            /\ d = 0 => /\ Val(res).NewProgress = [num |-> 0, den |-> 1]
                        /\ Val(res).OldProgress = [num |-> 0, den |-> 1]
            /\ a = 0 => Val(res).NewProgress.num = 0

C10_Witness ==
    /\ res # None
    /\ Val(res).Desired = 0
    /\ arg.newRS.Available > 0
    /\ Val(res).OldRS.Available > 0

\* a guard of the estimate fails on the input
ETAGuardFails(i) ==
    \/ FracLess(i.progress, MinProgressForETA)
    \/ ~FracLess(i.progress, One)
    \/ i.progressUpdateTime = None
    \/ Val(i.progressUpdateTime) - i.startTime <= 0
    \/ (Val(i.progressUpdateTime) - i.startTime) * i.progress.den
           >= MaxRealisticETAHours * i.progress.num

\* C11: the ETA is absent whenever a guard fails: progress below
\* MinProgressForETA, progress at or above 1, no progress-update time,
\* elapsed = progressUpdateTime - startTime <= 0, or elapsed/p >= 24 hours
C11_NoETAWhenGuardFails ==
    (res # None /\ ETAGuardFails(arg)) => Val(res).EstimatedCompletion = None

\* C12: an ETA that is present is strictly later than the time at which it
\* was evaluated
C12_ETAInFuture ==
    (res # None /\ Val(res).EstimatedCompletion # None) =>
        Val(Val(res).EstimatedCompletion) > arg.now

C12_Witness ==
    /\ res # None
    /\ arg.rev = "events"
    /\ Val(res).EstimatedCompletion = Some(arg.now + 1)
    /\ arg.progress = [num |-> 1, den |-> 2]

\* C13: an ETA that is present is startTime + elapsed/p with
\* elapsed = progressUpdateTime - startTime, whatever the local clock reads
C13_ETAFromServerClock ==
    (res # None /\ Val(res).EstimatedCompletion # None) =>
        /\ arg.progressUpdateTime # None
        /\ Val(Val(res).EstimatedCompletion) =
              arg.startTime + ((Val(arg.progressUpdateTime) - arg.startTime)
                                 * arg.progress.den) \div arg.progress.num

\* the events of the batch the ignore pattern matches, and the others
IgnoredEvents(i) ==
    {k \in 1..Len(i.events) :
        /\ i.ignoreRegex # None
        /\ MatchString(Val(i.ignoreRegex), i.events[k].Reason, i.events[k].Message)}

KeptEvents(i) == (1..Len(i.events)) \ IgnoredEvents(i)

RECURSIVE SumCounts(_)
SumCounts(clusters) ==
    IF clusters = <<>> THEN 0
    ELSE clusters[1].ExemplarCount + SumCounts(Tail(clusters))

ClustersOf(clusters, type, reason) ==
    SelectSeq(clusters, LAMBDA c : c.Type = type /\ c.Reason = reason)

\* C14: every event the ignore pattern matches adds one to ignoredCount and
\* nothing to any cluster (no exemplar count, no lastSeen); no other event is
\* counted as ignored
C14_IgnoredCountedOnce ==
    res # None =>
        LET s == Val(res)
        IN  /\ s.IgnoredCount = Cardinality(IgnoredEvents(arg))
            /\ SumCounts(s.Clusters) = Cardinality(KeptEvents(arg))
            /\ \A k \in 1..Len(s.Clusters) :
                  \E e \in KeptEvents(arg) :
                      /\ arg.events[e].Type = s.Clusters[k].Type
                      /\ arg.events[e].Reason = s.Clusters[k].Reason
                      /\ getEventTime(arg.events[e]) = s.Clusters[k].LastSeen

C14_Witness ==
    /\ res # None
    /\ \E e \in IgnoredEvents(arg) : \E k \in KeptEvents(arg) :
          /\ arg.events[e].Type = arg.events[k].Type
          /\ arg.events[e].Reason = arg.events[k].Reason
          /\ getEventTime(arg.events[e]) > getEventTime(arg.events[k])
          /\ \A j \in KeptEvents(arg) : getEventTime(arg.events[j]) < getEventTime(arg.events[e])

\* C15: clusters never span groups: the exemplars of the clusters of a
\* (type, reason) are the surviving events of that type and reason, also
\* when events of another reason or type carry the same masked message
C15_ClustersWithinGroup ==
    res # None =>
        \A type \in {EventTypeWarning, EventTypeNormal} :
            \A reason \in {ReasonsSorted[r] : r \in 1..Len(ReasonsSorted)} :
                SumCounts(ClustersOf(Val(res).Clusters, type, reason)) =
                    Cardinality({e \in KeptEvents(arg) :
                                    /\ arg.events[e].Type = type
                                    /\ arg.events[e].Reason = reason})

C15_Witness ==
    /\ res # None
    /\ Len(Val(res).Clusters) = 3
    /\ KeptEvents(arg) = 1..3
    /\ \A e \in 1..3 : maskMessage(arg.events[e].Message) = <<"Readiness", "probe", "failed">>

\* the similarity of two masked messages: the share of equal tokens
MessageSimilarity(a, b) ==
    IF Len(a) # Len(b) THEN Zero
    ELSE [num |-> Cardinality({k \in 1..Len(a) : a[k] = b[k]}), den |-> Len(a)]

Score(template, tokens) ==
    [num |-> Cardinality({k \in 1..Len(tokens) :
                            template[k] # ParamString /\ template[k] = tokens[k]}),
     den |-> Len(tokens)]

\* the clusters a message is compared with: those filed under its token count
\* and its first token, or under the wildcard when no cluster is filed under
\* its first token
Candidates(clusters, tokens) ==
    LET under(first) == {c \in 1..Len(clusters) :
                            clusters[c].leaf = <<Len(tokens), first>>}
    IN  IF under(tokens[1]) # {} THEN under(tokens[1]) ELSE under(ParamString)

C17_Sorted ==
    res # None =>
        LET cs == Val(res).Clusters
        IN  \A i, j \in 1..Len(cs) :
                i < j =>
                    /\ cs[i].Type = EventTypeNormal => cs[j].Type = EventTypeNormal
                    /\ cs[i].Type = cs[j].Type => cs[i].ExemplarCount >= cs[j].ExemplarCount
                    /\ (cs[i].Type = cs[j].Type /\ cs[i].ExemplarCount = cs[j].ExemplarCount)
                          => ReasonRank(cs[i].Reason) <= ReasonRank(cs[j].Reason)

C17_Witness ==
    /\ res # None
    /\ Len(Val(res).Clusters) = 3
    /\ Val(res).Clusters[1].Type = EventTypeWarning
    /\ Val(res).Clusters[2].Type = EventTypeNormal
    /\ Val(res).Clusters[2].ExemplarCount = 1
    /\ arg.events[1].Type = EventTypeNormal
    /\ Val(res).Clusters[2].Reason = "Pulled"
    /\ Val(res).Clusters[3].Reason = "Unhealthy"

\* C18: two calls of SummarizeEvents on the same batch return the same
\* sequence of clusters
C18_DeterministicOrder ==
    (res # None /\ memo # None) => Val(res).Clusters = Val(memo).Clusters

\* C19: SummarizeEvents always returns a summary: the empty one for an empty
\* batch, no clusters and ignoredCount = batch size when every event is
\* ignored, and never a cluster of exemplar count 0
C19_NeverFails ==
    /\ res = None => SummarizeEvents(arg.events, arg.ignoreRegex, arg.threshold) # {}
    /\ res # None =>
          /\ Len(arg.events) = 0 => Val(res) = [Clusters |-> <<>>, IgnoredCount |-> 0]
          /\ KeptEvents(arg) = {} =>
                Val(res) = [Clusters |-> <<>>, IgnoredCount |-> Len(arg.events)]
          /\ \A k \in 1..Len(Val(res).Clusters) : Val(res).Clusters[k].ExemplarCount >= 1

C19_Witness ==
    /\ res # None
    /\ Len(arg.events) = 3
    /\ KeptEvents(arg) = {}
    /\ Val(res).IgnoredCount = 3

\* the annotation values above that are not integers
MalformedRevisions == {<<>>, <<"x">>, <<"1", "x">>, <<"-">>}

Malformed(rs) == rs.Revision # None /\ Val(rs.Revision) \in MalformedRevisions

\* C20: a ReplicaSet of the deployment whose revision annotation is present
\* and not an integer makes the fetch fail: no ReplicaSet is returned as new
\* or old, and the revision is not taken as 0
C20_MalformedRevisionFails ==
    (res # None /\ \E k \in 1..Len(arg) : arg[k].Controlled /\ Malformed(arg[k])) =>
        /\ Val(res).err
        /\ Val(res).newRS = None
        /\ Val(res).oldRS = <<>>

C20_Witness ==
    /\ res # None
    /\ Len(arg) = 2
    /\ arg[1].Controlled /\ arg[1].Revision = Some(<<"2">>) /\ arg[1].Replicas = Some(1)
    /\ arg[2].Controlled /\ arg[2].Revision = Some(<<"1", "x">>)
    /\ Val(res).err

Owned(items) == {k \in 1..Len(items) : items[k].Controlled}

\* C21: when the fetch returns no new ReplicaSet the build fails with the
\* error of its own, not with the wrapped error of the fetch; and whenever
\* the fetch succeeds and the deployment owns a ReplicaSet, one is found as new
C21_NewGroupFound ==
    res # None =>
        /\ (~Val(res).err /\ Val(res).newRS = None) =>
              replicaSetsOutcome(Val(res)) = "ErrNoNewReplicaSet"
        /\ (~Val(res).err /\ Owned(arg) # {}) => Val(res).newRS # None

\* the revision GetReplicaSets reads from a ReplicaSet with a well-formed or
\* absent annotation
RevisionOf(rs) == IF rs.Revision = None THEN 0 ELSE Val(ParseInt(Val(rs.Revision)))

Occurrences(s, v) == Cardinality({k \in 1..Len(s) : s[k] = v})

\* C22: GetReplicaSets partitions the owned ReplicaSets: the new one has a
\* revision >= that of every owned one, and the old list holds every other
\* owned ReplicaSet with more than 0 desired replicas once, and nothing else,
\* in whatever order the API lists them
C22_Partition ==
    (res # None /\ ~Val(res).err) =>
        LET new == Val(res).newRS
            old == Val(res).oldRS
            owned == SubSeqOf(arg, Owned(arg), 1)
        IN  /\ new # None =>
                  /\ Occurrences(owned, Val(new)) >= 1
                  /\ \A k \in Owned(arg) : RevisionOf(Val(new)) >= RevisionOf(arg[k])
            /\ \A v \in ReplicaSetItems :
                  Occurrences(old, v) =
                      IF Val(v.Replicas) > 0
                      THEN Occurrences(owned, v) - (IF new = Some(v) THEN 1 ELSE 0)
                      ELSE 0

C22_Witness ==
    /\ res # None
    /\ Len(arg) = 2
    /\ arg[1].Controlled /\ arg[1].Revision = Some(<<"1", "2">>)
    /\ arg[2].Controlled /\ arg[2].Revision = Some(<<"2">>) /\ arg[2].Replicas = Some(1)
    /\ Val(res).newRS = Some(arg[1])
    /\ Val(res).oldRS = <<arg[2]>>

\* the surviving events of one (type, reason), in the order of the batch
EventsOfGroup(i, key) ==
    SubSeqOf(i.events, {e \in KeptEvents(i) : /\ i.events[e].Type = key[1]
                                              /\ i.events[e].Reason = key[2]}, 1)

\* the cluster Drain puts each message of the group in
AssignmentOf(i, key) ==
    LET evs == EventsOfGroup(i, key)
    IN  TrainAll([k \in 1..Len(evs) |-> evs[k].Message], i.threshold, 1,
                 [clusters |-> <<>>, assigned |-> <<>>])

\* the output clusters the clusters Drain formed in a group must give, by
\* the number of the cluster
ExpectedClusters(i, key) ==
    LET evs == EventsOfGroup(i, key)
        st == AssignmentOf(i, key)
        members(c) == {j \in 1..Len(evs) : st.assigned[j] = c}
        latest(T) == CHOOSE t \in T : \A u \in T : u <= t
    IN  [c \in 1..Len(st.clusters) |->
            [Type |-> key[1], Reason |-> key[2],
             Message |-> st.clusters[c].template,
             ExemplarCount |-> Cardinality(members(c)),
             LastSeen |-> latest({getEventTime(evs[j]) : j \in members(c)})]]

\* C23: the output clusters are the clusters Drain formed, one for one, and
\* each has as exemplarCount the number of surviving messages assigned to it
\* and as lastSeen the latest resolved timestamp among these messages
C23_CountAndLastSeen ==
    res # None =>
        LET out == Val(res).Clusters
            keys == {<<arg.events[e].Type, arg.events[e].Reason>> : e \in KeptEvents(arg)}
            expected == [key \in keys |-> ExpectedClusters(arg, key)]
            formed == UNION {{<<key, c>> : c \in 1..Len(expected[key])} : key \in keys}
        IN  /\ Len(out) = Cardinality(formed)
            /\ \A k \in 1..Len(out) :
                  Occurrences(out, out[k]) =
                      Cardinality({kc \in formed : expected[kc[1]][kc[2]] = out[k]})

C23_Witness ==
    /\ res # None
    /\ arg.ignoreRegex = Some("BackOff")
    /\ arg.threshold = DefaultSimilarityThreshold
    /\ Len(arg.events) = 3
    /\ arg.events[1].LastTimestamp = 5 /\ arg.events[1].Reason = "Unhealthy"
    /\ arg.events[2] = EvReadiness
    /\ arg.events[3].Reason = "BackOff" /\ arg.events[3].LastTimestamp = 4
    /\ Len(Val(res).Clusters) = 1
    /\ Val(res).Clusters[1].ExemplarCount = 2
    /\ Val(res).Clusters[1].LastSeen = 5

\* C24: the timestamp of an event is its last-observed time if that is set,
\* else its event time if that is set, else its creation time
C24_FallbackChain ==
    res # None =>
        /\ arg.LastTimestamp # 0 => Val(res) = arg.LastTimestamp
        /\ (arg.LastTimestamp = 0 /\ arg.EventTime # 0) => Val(res) = arg.EventTime
        /\ (arg.LastTimestamp = 0 /\ arg.EventTime = 0) => Val(res) = arg.CreationTimestamp

C24_Witness ==
    /\ res = Some(3)
    /\ arg = [LastTimestamp |-> 0, EventTime |-> 3, CreationTimestamp |-> 5]

\* the snapshot of the cycle in progress is waiting for the view with every
\* earlier one displayed, or it is the one displayed last
RenderedOnceInOrder ==
    /\ snapshot # None =>
          \/ pc = "RenderSnapshot" /\ renders = cycle - 1
          \/ pc # "RenderSnapshot" /\ renders = cycle /\ rendered = snapshot
    /\ pc \in {"result", "select"} => snapshot # None
    /\ ret \in {"nil", "ErrProgressDeadlineExceeded"} =>
          /\ snapshot # None
          /\ Terminal(Val(snapshot).Status)

\* a step that displays a snapshot displays the one just built, once, while
\* Run is at the render step of processDeployment
RenderStep ==
    (renders' # renders \/ rendered' # rendered) =>
        /\ pc = "RenderSnapshot"
        /\ ret = "running"
        /\ renders' = renders + 1
        /\ snapshot # None
        /\ rendered' = snapshot

\* C27: every snapshot built is rendered exactly once, in cycle order, before
\* the check of result.Done of its cycle; in single-rollout mode the terminal
\* snapshot has been rendered when Run returns, and nothing is rendered after
\* the cycle that made Run return
C27_RenderedOnceBeforeExitCheck == []RenderedOnceInOrder /\ [][RenderStep]_vars

C27_Witness ==
    /\ ret = "nil"
    /\ cycle = 2
    /\ renders = 2
    /\ Val(rendered).Status = StatusComplete

\* C28: on every exit path of Run the view's Shutdown has been called exactly
\* once when Run has returned, never before, and no RenderSnapshot follows it
C28_ShutdownOnceAfterLastRender ==
    /\ [](/\ ret = "running" => shutdowns = 0
          /\ ret # "running" => shutdowns = 1
          /\ pc \in {"returned", "exited"} <=> ret # "running")
    /\ [][shutdowns >= 1 => (renders' = renders /\ rendered' = rendered)]_vars

C28_Witness ==
    /\ ret = "ErrCancelled"
    /\ shutdowns = 1
    /\ renders = 2
    /\ pc = "exited"

\* C29: a snapshot whose status is Complete or DeadlineExceeded has a
\* ProgressUpdateTime, so the duration the line renderer prints for a finished
\* rollout never reads a missing timestamp
C29_TerminalHasUpdateTime ==
    res # None =>
        /\ Terminal(Val(res).Status) => Val(res).ProgressUpdateTime # None
        /\ formatMetadata(Val(res)) # "nil dereference"

C29_Witness ==
    /\ res # None
    /\ Val(res).Status = StatusDeadlineExceeded
    /\ Val(res).ProgressUpdateTime # None
    /\ formatMetadata(Val(res)) = "DUR"
    /\ Len(arg) = 3
    /\ arg[1].Type = DeploymentAvailable

\* EventsTable.buildEventsTitle: the numbers of the title of the events table
buildEventsTitle(summary) ==
    [TOTAL |-> SumCounts(summary.Clusters), IGNORED |-> summary.IgnoredCount]

\* C30: the exemplar counts of the clusters and ignoredCount add up to the
\* number of events of the batch, and the TOTAL of the events table is the
\* number of events that were not ignored
C30_EventConservation ==
    res # None =>
        /\ SumCounts(Val(res).Clusters) + Val(res).IgnoredCount = Len(arg.events)
        /\ buildEventsTitle(Val(res)).TOTAL = Cardinality(KeptEvents(arg))
        /\ buildEventsTitle(Val(res)).TOTAL + buildEventsTitle(Val(res)).IGNORED
              = Len(arg.events)

C30_Witness ==
    /\ res # None
    /\ Len(arg.events) = 3
    /\ Val(res).IgnoredCount = 1
    /\ Len(Val(res).Clusters) = 1
    /\ Val(res).Clusters[1].ExemplarCount = 2
    /\ Val(res).Clusters[1].Message = <<"image", "<IP:PORT>">>
    /\ arg.events[1].Message # arg.events[3].Message

\* C25: the poll loop never waits at the handoff of a snapshot while the
\* renderer handles a message or redraws: whenever Run is at
\* view.RenderSnapshot, Program.Send can return at once
C25_HandoffNeverWaits ==
    (tui # None /\ tui.mode = "tui" /\ pc = "RenderSnapshot") => tui.loop # "updating"

\* the addresses the components of the Model keep
StoredSnapshots(t) ==
    <<t.model.rolloutInfo, t.model.podStats, t.model.podsGrid, t.model.eventsTable>>

\* C26: no step of a renderer changes a snapshot that exists (the Update of
\* the Model for any message, the View of the Model and of its components,
\* the line renderer), and the Update for a TickMsg leaves the snapshot every
\* component keeps where it is
C26_SnapshotNeverMutated ==
    [][/\ \A id \in 1..Len(heap) : heap'[id] = heap[id]
       /\ (tui # None /\ tui.msg = Some(TickMsg) /\ tui'.msg = None) =>
             StoredSnapshots(tui') = StoredSnapshots(tui)]_vars

C26_Witness ==
    /\ tui # None
    /\ tui.handled = "TickMsg"
    /\ tui.loop = "receiving"
    /\ Len(heap) = 2
    /\ StoredSnapshots(tui) = <<Some(1), Some(1), Some(1), Some(1)>>
    /\ tui.frame.screen = "layout"
    /\ Len(tui.frame.rows) = 3

===========================================================================
